---- MODULE Spec2Model ----
(***************************************************************************)
(* Model of the paper ingestion and indexing pipeline of acm_scholar_cli:  *)
(*   core/downloader.py  PaperDownloader (download_pdf, index_paper,       *)
(*                       _extract_text, _chunk_text, _generate_embeddings, *)
(*                       _store_in_db)                                     *)
(*   download.py         the commands download_paper and download_batch    *)
(*   core/searcher.py    get_paper_by_id, get_pdf_url (as the environment) *)
(*                                                                         *)
(*   db/surrealdb.py     SurrealDBClient (connect, create_tables,          *)
(*                       add_paper, add_chunk, semantic_search,            *)
(*                       delete_paper)                                     *)
(*                                                                         *)
(*   core/chat_engine.py ChatEngine (load_paper, clear_context)            *)
(*                                                                         *)
(* Six specifications:                                                     *)
(*   CallSpec    direct calls of the helper methods _chunk_text and        *)
(*               _generate_embeddings on inputs drawn from bounded sets;   *)
(*   Spec        the commands: one run of download_paper or                *)
(*               download_batch;                                           *)
(*   FileSpec    download_batch on identifier files with blank and padded  *)
(*               lines, under one configuration;                           *)
(*   ExtractSpec direct calls of _extract_text on PDFs of several pages;   *)
(*   StoreSpec   calls of the methods of one SurrealDBClient, in any       *)
(*               order;                                                    *)
(*   ChatSpec    load_paper and clear_context on one ChatEngine, in any    *)
(*               order.                                                    *)
(***************************************************************************)
EXTENDS Integers, Sequences, FiniteSets, TLC

\* ------------------------------------------------------------------ bounds
\* longest text handed to _chunk_text in CallSpec
MaxLen == 4
\* largest chunk_size (and overlap) tried in CallSpec
MaxSize == 3
\* the chunk list is followed up to this many chunks (the loop can run forever)
MaxChunks == 6
\* longest identifier list of a batch
MaxBatch == 2
\* number of 8192-byte blocks of a PDF payload
MaxBlocks == 2
\* most rows of the chunks table in StoreSpec
MaxRows == 3
\* most lines of the identifier file of a batch
MaxLines == 3
\* most pages of a PDF handed to _extract_text in ExtractSpec
MaxPages == 3
\* most calls of load_paper on one ChatEngine in ChatSpec
MaxSessions == 5

\* ------------------------------------------------------- program constants
\* def _chunk_text(self, text, chunk_size: int = 1000, overlap: int = 200)
DefaultChunkSize == 1000
DefaultOverlap == 200
\* safe_title = "".join(...)[:50]
TitleLimit == 50

\* ------------------------------------------------------------------- state
VARIABLES
    \* _chunk_text: its arguments, its locals and its position
    text, chunk_size, overlap, start, end, chunks, cpc,
    \* the configuration (config.database.host, config.llm.api_key,
    \* config.llm.provider) and whether sentence_transformers can be imported
    cfg,
    \* the result of the last call of _generate_embeddings and the backends
    \* (_generate_remote_embeddings, _generate_local_embeddings) it invoked
    embed_res, backends,
    \* the command that runs ("default" = download_paper, "batch" =
    \* download_batch, "none" = a direct call of a helper) and its --index flag
    cmd, index,
    \* download_batch: the lines of the identifier file, the identifiers read,
    \* how many the for loop has taken, the position in the loop body, the
    \* paper in hand and the two counters
    file_lines, paper_ids, pos, bpc, paper, success_count, failed_count,
    \* download_pdf: blocks of the response body, blocks written so far, whether
    \* the response carries a content-length, how the request ended ("error" =
    \* no response, "status" = final status not 2xx, "ok"), and the download
    \* directory
    blocks, written, has_length, response, fs,
    \* observation of the run: identifiers taken, outcome of each finished
    \* document, stages started for the document in hand, how download_pdf and
    \* index_paper ended for it
    attempted, outcomes, stages, dl_res, index_res,
    \* SurrealDBClient: whether self.client is set, the ids of the rows of the
    \* papers table, the rows of the chunks table in the order of their
    \* insertion, the position inside delete_paper, and the last call made
    \* (its arguments, the tables before it, the queries it issued, its result)
    client, paper_rows, chunk_rows, spc, last,
    \* _extract_text: the PDF it was called on (whether PdfReader opens it, and
    \* for each page whether extract_text() returns and what) and its result
    pdf, extract_res,
    \* ChatEngine: self.current_paper_id, self.current_session_id, and the
    \* calls it has made on its DataStorage: how many times
    \* start_reading_session was called and the session ids handed to
    \* end_reading_session
    current_paper_id, current_session_id, started, ended

chunk_vars == <<text, chunk_size, overlap, start, end, chunks, cpc>>
cmd_vars == <<cmd, index, file_lines, paper_ids, pos, bpc, paper, success_count, failed_count,
              blocks, written, has_length, response, fs, attempted, outcomes,
              stages, dl_res, index_res>>
store_vars == <<client, paper_rows, chunk_rows, spc, last>>
extract_vars == <<pdf, extract_res>>
chat_vars == <<current_paper_id, current_session_id, started, ended>>
vars == <<text, chunk_size, overlap, start, end, chunks, cpc, cfg, embed_res, backends,
          cmd, index, file_lines, paper_ids, pos, bpc, paper, success_count,
          failed_count, blocks, written, has_length, response, fs, attempted,
          outcomes, stages, dl_res, index_res, client, paper_rows, chunk_rows, spc, last,
          pdf, extract_res, current_paper_id, current_session_id, started, ended>>

\* ---------------------------------------------------------------- helpers
Min(a, b) == IF a <= b THEN a ELSE b
Max(a, b) == IF a >= b THEN a ELSE b

\* Python's s[a:b] for a sequence s and integer offsets a, b (0-based, a
\* negative offset counts from the end, offsets beyond the ends are clamped).
PyIndex(k, n) == IF k < 0 THEN Max(k + n, 0) ELSE Min(k, n)
PySlice(s, a, b) ==
    LET lo == PyIndex(a, Len(s))
        hi == PyIndex(b, Len(s))
    IN  IF hi <= lo THEN <<>> ELSE SubSeq(s, lo + 1, hi)

Chars == {"a", "b"}
RECURSIVE SeqsUpTo(_, _)
SeqsUpTo(S, n) ==
    IF n = 0 THEN {<<>>}
    ELSE LET shorter == SeqsUpTo(S, n - 1)
         IN  shorter \cup {Append(s, c) : s \in {t \in shorter : Len(t) = n - 1}, c \in S}
Texts == SeqsUpTo(Chars, MaxLen)

\* ------------------------------------------------------------ _chunk_text
\* chunks = []; start = 0; text_len = len(text)
ChunkEntry(t, size, ov) ==
    /\ text' = t
    /\ chunk_size' = size
    /\ overlap' = ov
    /\ start' = 0
    /\ end' = 0
    /\ chunks' = <<>>
    /\ cpc' = "loop"

\* One iteration of `while start < text_len:` (lines 150-156): the chunk is
\* appended, start becomes end - overlap, and the loop is left only by the
\* break or by the loop condition, both of which test start >= text_len.
\* (mutant) the next chunk starts where this one ended, without overlap
ChunkNextStartNoOverlap(e, ov) == e
ChunkNextStart(e, ov) == e - ov
ChunkStep ==
    /\ bpc \in {"call", "chunking"}
    /\ cpc = "loop"
    /\ start < Len(text)
    /\ Len(chunks) < MaxChunks
    /\ LET e == Min(start + chunk_size, Len(text))
           s == ChunkNextStart(e, overlap)
       IN  /\ end' = e
           /\ chunks' = Append(chunks, PySlice(text, start, e))
           /\ start' = s
           /\ cpc' = IF s >= Len(text) THEN "done" ELSE "loop"
    /\ UNCHANGED <<text, chunk_size, overlap, cfg, embed_res, backends>>
    /\ UNCHANGED cmd_vars
    /\ UNCHANGED store_vars
    /\ UNCHANGED extract_vars
    /\ UNCHANGED chat_vars

\* `while start < text_len` is false on entry (the empty text): return chunks
ChunkReturnEmpty ==
    /\ bpc \in {"call", "chunking"}
    /\ cpc = "loop"
    /\ ~(start < Len(text))
    /\ cpc' = "done"
    /\ UNCHANGED <<text, chunk_size, overlap, start, end, chunks, cfg, embed_res,
                   backends>>
    /\ UNCHANGED cmd_vars
    /\ UNCHANGED store_vars
    /\ UNCHANGED extract_vars
    /\ UNCHANGED chat_vars

\* --------------------------------------------------- results of a call
Return(v) == [kind |-> "return", value |-> v, exc |-> "-"]
Raise(e) == [kind |-> "raise", value |-> <<>>, exc |-> e]
NoResult == [kind |-> "none", value |-> <<>>, exc |-> "-"]
\* no PDF has been handed to _extract_text yet
NoPdf == [opens |-> FALSE, pages |-> <<>>]
\* ChatEngine.__init__: self.current_paper_id = None, self.current_session_id = None
NoPaperId == "None"
NoSession == 0

\* core/downloader.py binds the names Path, Optional, httpx, Progress and
\* Config (lines 3-7) and no name `console`: evaluating console.print(...) in
\* one of its methods raises NameError.
ConsoleBound == FALSE
\* `console.print(...); <rest>`: the rest runs only if the print returns
AfterConsolePrint(rest) == IF ConsoleBound THEN rest ELSE Raise("NameError")

\* ---------------------------------------------------------- configurations
Providers == {"openai", "ollama"}
Configs == [db_host : BOOLEAN, api_key : BOOLEAN, provider : Providers,
            st_installed : BOOLEAN]

\* ----------------------------------------------------------- the embedders
\* model.encode(chunks).tolist(): one vector per chunk, in order
Encode(cs) == [i \in 1..Len(cs) |-> <<"vec", cs[i]>>]

\* _generate_remote_embeddings: console.print(...); return []
GenerateRemoteEmbeddings(cs) == AfterConsolePrint(Return(<<>>))

\* _generate_local_embeddings: inside the try, the import, then console.print,
\* then encode; `except ImportError` catches the failed import only, and its
\* handler is console.print(...); return []
GenerateLocalEmbeddings(c, cs) ==
    IF c.st_installed
    THEN AfterConsolePrint(Return(Encode(cs)))
    ELSE AfterConsolePrint(Return(<<>>))

\* _generate_embeddings: remote iff an API key is set and the provider is not
\* "ollama"
UsesRemote(c) == c.api_key /\ c.provider # "ollama"
GenerateEmbeddings(c, cs) ==
    IF UsesRemote(c) THEN GenerateRemoteEmbeddings(cs)
    ELSE GenerateLocalEmbeddings(c, cs)
\* (mutant) the provider is not looked at
BackendsByKeyOnly(c, cs) == IF c.api_key THEN {"remote"} ELSE {"local"}
\* lines 171-174: the branch taken calls one of the two methods
BackendsInvoked(c, cs) == IF UsesRemote(c) THEN {"remote"} ELSE {"local"}

\* _store_in_db: console.print(...); return ""
StoreInDb(p, cs, es) == AfterConsolePrint(Return(""))

\* A direct call of _generate_embeddings on the chunk list just returned
EmbedCall ==
    /\ bpc = "call"
    /\ cpc = "done"
    /\ embed_res = NoResult
    /\ embed_res' = GenerateEmbeddings(cfg, chunks)
    /\ backends' = BackendsInvoked(cfg, chunks)
    /\ UNCHANGED <<cfg>>
    /\ UNCHANGED chunk_vars
    /\ UNCHANGED cmd_vars
    /\ UNCHANGED store_vars
    /\ UNCHANGED extract_vars
    /\ UNCHANGED chat_vars

\* ------------------------------------------------- papers and file names
\* The works the metadata source knows. W1 and W2 differ in their titles only
\* by a character the file name does not keep apart.
Docs == {"W1", "W2", "W3"}
\* W3's title is longer than the limit and, once filtered, starts with a blank.
\* authorships holds the display names in order; W2 has two authors.
\* local_path is what paper.get("local_path", "") reads: the metadata source
\* sends no such key, so it is empty unless the program sets it.
LongTitle == <<" ">> \o [i \in 1..TitleLimit |-> "b"] \o <<":", "-">>
Catalog(id) ==
    CASE id = "W1" -> [id |-> "W1", title |-> <<"a", " ", "b">>, year |-> "2020",
                       authorships |-> << <<"x", " ", "l">> >>, local_path |-> <<>>]
      [] id = "W2" -> [id |-> "W2", title |-> <<"a", "_", "b", "/">>, year |-> "2020",
                       authorships |-> << <<"l">>, <<"y", " ", "m">> >>,
                       local_path |-> <<>>]
      [] OTHER     -> [id |-> "W3", title |-> LongTitle, year |-> "2021",
                       authorships |-> << <<"y", " ", "m">>, <<"x", " ", "l">> >>,
                       local_path |-> <<>>]
NoPaper == [id |-> "-", title |-> <<>>, year |-> "-", authorships |-> <<>>,
            local_path |-> <<>>]

\* c.isalnum() or c in (" ", "-", "_")
IsAlnum(c) == c \in {"a", "b", "l", "m", "x", "y", "0", "1"}
Keeps(c) == IsAlnum(c) \/ c \in {" ", "-", "_"}
RECURSIVE Filter(_)
Filter(s) ==
    IF s = <<>> THEN <<>>
    ELSE IF Keeps(Head(s)) THEN <<Head(s)>> \o Filter(Tail(s)) ELSE Filter(Tail(s))
\* str.strip(): leading and trailing blanks removed
RECURSIVE LStrip(_)
LStrip(s) == IF s # <<>> /\ Head(s) = " " THEN LStrip(Tail(s)) ELSE s
RECURSIVE RStrip(_)
RStrip(s) ==
    IF s # <<>> /\ s[Len(s)] = " " THEN RStrip(SubSeq(s, 1, Len(s) - 1)) ELSE s
Strip(s) == RStrip(LStrip(s))
\* str.replace(" ", "_")
ReplaceBlanks(s) == [i \in 1..Len(s) |-> IF s[i] = " " THEN "_" ELSE s[i]]
\* (mutant) the blanks at the ends are not stripped before the replacement
SafeTitleUnstripped(title) == ReplaceBlanks(PySlice(Filter(title), 0, TitleLimit))
\* lines 43-44
SafeTitle(title) == ReplaceBlanks(Strip(PySlice(Filter(title), 0, TitleLimit)))
\* first_author.split()[-1] if " " in first_author else first_author; the
\* catalog's display names hold single blanks between words
RECURSIVE LastWord(_)
LastWord(s) ==
    IF \E i \in 1..Len(s) : s[i] = " "
    THEN LastWord(Tail(s))
    ELSE s
\* lines 47-52: the last word of the first author's display name
AuthorLastname(authors) ==
    IF authors # <<>> THEN LastWord(authors[1]) ELSE <<"unknown">>
\* lines 55-56: f"{author_lastname}_{year}_{safe_title}.pdf" under download_dir
FileName(p) ==
    AuthorLastname(p.authorships) \o <<"_", p.year, "_">> \o SafeTitle(p.title)
        \o <<".pdf">>
Paths == {FileName(Catalog(d)) : d \in Docs}

\* A file of the download directory: whether it exists, the blocks it holds,
\* the blocks of the payload it was opened for, and the work it was opened for
NoFile == [exists |-> FALSE, held |-> 0, total |-> 0, of |-> "-"]

\* ------------------------------------------------- the callers' handlers
\* `except Exception` of download_batch (lines 168-170) counts the failure and
\* goes on with the next identifier; that of download_paper (lines 90-92)
\* exits with status 1. The `continue` branches (lines 139-149) and the
\* typer.Exit(1) branches (lines 49-62) do the same.
\* (mutant) the batch handler ends the command as download_paper's does
HandlerAborts(c) == "exit1"
HandlerNext(c) == IF c = "batch" THEN "head" ELSE "exit1"
DocFailed ==
    /\ failed_count' = (IF cmd = "batch" THEN failed_count + 1 ELSE failed_count)
    /\ outcomes' = Append(outcomes, "failed")
    /\ bpc' = HandlerNext(cmd)
    /\ UNCHANGED success_count
\* (mutant) a document that succeeded is counted as failed as well
DocSucceededCountedTwice ==
    /\ success_count' = (IF cmd = "batch" THEN success_count + 1 ELSE success_count)
    /\ failed_count' = (IF cmd = "batch" THEN failed_count + 1 ELSE failed_count)
    /\ outcomes' = Append(outcomes, "ok")
    /\ bpc' = IF cmd = "batch" THEN "head" ELSE "finished"
\* lines 165-166 (success_count += 1) and line 88
DocSucceeded ==
    /\ success_count' = (IF cmd = "batch" THEN success_count + 1 ELSE success_count)
    /\ outcomes' = Append(outcomes, "ok")
    /\ bpc' = IF cmd = "batch" THEN "head" ELSE "finished"
    /\ UNCHANGED failed_count

run_consts == <<cfg, embed_res, cmd, index, file_lines, paper_ids>>
\* run_consts and the backends invoked
run_frame == <<run_consts, backends>>
fetch_vars == <<blocks, written, has_length, response>>
ChunkIdle ==
    /\ text' = <<>>
    /\ chunk_size' = DefaultChunkSize
    /\ overlap' = DefaultOverlap
    /\ start' = 0
    /\ end' = 0
    /\ chunks' = <<>>
    /\ cpc' = "idle"

\* ---------------------------------------------------------- download_batch
\* The lines `for line in f` can yield, as sequences of characters in which an
\* identifier is one item and " " stands for a whitespace character (the line
\* end included): a line with nothing but its line end, a whitespace-only
\* line, an identifier with its line end, an identifier with whitespace
\* around it
FileLines ==
    {<<" ">>, <<" ", " ">>} \cup {<<d, " ">> : d \in Docs}
        \cup {<<" ", d, " ">> : d \in Docs}
\* (mutant) every line gives an identifier, the blank ones included
ReadIdsKeepsBlank(lines) ==
    [i \in 1..Len(lines) |-> IF Strip(lines[i]) = <<>> THEN "" ELSE Strip(lines[i])[1]]
\* lines 118-119: [line.strip() for line in f if line.strip()]
ReadIds(lines) ==
    LET kept == SelectSeq(lines, LAMBDA l : Strip(l) # <<>>)
    IN  [i \in 1..Len(kept) |-> Strip(kept[i])[1]]

\* Lines 117-123: the file is read; with no identifier in it the command
\* exits with status 1, otherwise the loop is entered
BatchRead ==
    /\ bpc = "read"
    /\ paper_ids' = ReadIds(file_lines)
    /\ bpc' = IF ReadIds(file_lines) = <<>> THEN "exit1" ELSE "head"
    /\ UNCHANGED <<cfg, embed_res, backends, cmd, index, file_lines>>
    /\ UNCHANGED <<pos, paper, success_count, failed_count, fs, attempted, outcomes,
                   stages, dl_res, index_res>>
    /\ UNCHANGED fetch_vars
    /\ UNCHANGED chunk_vars
    /\ UNCHANGED store_vars
    /\ UNCHANGED extract_vars
    /\ UNCHANGED chat_vars

\* `for paper_id in paper_ids:` takes the next identifier (line 133); the
\* locals of the loop body start afresh
BatchTake ==
    /\ bpc = "head"
    /\ pos < Len(paper_ids)
    /\ pos' = pos + 1
    /\ attempted' = Append(attempted, paper_ids[pos + 1])
    /\ bpc' = "get_paper"
    /\ paper' = NoPaper
    /\ stages' = <<>>
    /\ dl_res' = "none"
    /\ index_res' = "none"
    /\ blocks' = 0 /\ written' = 0 /\ has_length' = FALSE /\ response' = "none"
    /\ ChunkIdle
    /\ pdf' = NoPdf /\ extract_res' = NoResult
    /\ UNCHANGED <<success_count, failed_count, fs, outcomes>>
    /\ UNCHANGED run_frame
    /\ UNCHANGED chat_vars
    /\ UNCHANGED store_vars

\* the list is exhausted: the summary is printed (lines 172-174)
BatchSummary ==
    /\ bpc = "head"
    /\ pos = Len(paper_ids)
    /\ bpc' = "summary"
    /\ UNCHANGED <<pos, paper, success_count, failed_count, fs, attempted, outcomes,
                   stages, dl_res, index_res>>
    /\ UNCHANGED fetch_vars
    /\ UNCHANGED chunk_vars
    /\ UNCHANGED run_frame
    /\ UNCHANGED store_vars
    /\ UNCHANGED extract_vars
    /\ UNCHANGED chat_vars

\* searcher.get_paper_by_id: the work, or None (status other than 200, or any
\* exception, which get_paper_by_id swallows); lines 137-142 and 47-51
GetPaper ==
    /\ bpc = "get_paper"
    /\ \E found \in BOOLEAN :
         IF found
         THEN /\ paper' = Catalog(paper_ids[pos])
              /\ bpc' = "get_url"
              /\ UNCHANGED <<success_count, failed_count, outcomes>>
         ELSE /\ DocFailed
              /\ UNCHANGED paper
    /\ UNCHANGED <<pos, fs, attempted, stages, dl_res, index_res>>
    /\ UNCHANGED fetch_vars
    /\ UNCHANGED chunk_vars
    /\ UNCHANGED run_frame
    /\ UNCHANGED store_vars
    /\ UNCHANGED extract_vars
    /\ UNCHANGED chat_vars

\* searcher.get_pdf_url: a URL or None; lines 144-149 and 57-62
GetPdfUrl ==
    /\ bpc = "get_url"
    /\ \E has_url \in BOOLEAN :
         IF has_url
         THEN /\ bpc' = "download"
              /\ UNCHANGED <<success_count, failed_count, outcomes>>
         ELSE DocFailed
    /\ UNCHANGED <<pos, paper, fs, attempted, stages, dl_res, index_res>>
    /\ UNCHANGED fetch_vars
    /\ UNCHANGED chunk_vars
    /\ UNCHANGED run_frame
    /\ UNCHANGED store_vars
    /\ UNCHANGED extract_vars
    /\ UNCHANGED chat_vars

\* ------------------------------------------------------------ cancellation
\* The positions of a command at which it is still running
Running == {"read", "head", "get_paper", "get_url", "download", "writing",
            "index", "extracting", "chunking"}
\* The user interrupts the command. Python raises KeyboardInterrupt in the
\* main thread at whatever statement is being executed; neither command
\* installs a signal handler, and KeyboardInterrupt is no Exception, so the
\* handlers (download.py lines 90 and 168) let it pass and the program ends
\* where it was. A `with open(...)` block being left closes the file and
\* keeps what was written.
Interrupt ==
    /\ bpc \in Running
    /\ bpc' = "interrupted"
    /\ UNCHANGED <<pos, paper, success_count, failed_count, fs, attempted, outcomes,
                   stages, dl_res, index_res>>
    /\ UNCHANGED fetch_vars
    /\ UNCHANGED chunk_vars
    /\ UNCHANGED run_frame
    /\ UNCHANGED store_vars
    /\ UNCHANGED extract_vars
    /\ UNCHANGED chat_vars

\* ------------------------------------------------------------ download_pdf
\* download_pdf raises: the exception leaves the `with Progress` block and the
\* try, passing over the call of index_paper, and reaches the handler
\* (mutant) index_paper is called although download_pdf raised
OnFetchErrorThenIndex ==
    /\ dl_res' = "raised"
    /\ bpc' = "index"
    /\ UNCHANGED <<success_count, failed_count, outcomes>>
OnFetchError ==
    /\ dl_res' = "raised"
    /\ DocFailed

\* (mutant) a file that is there already is kept as it is
OpenKeepsExisting(dir, path, n, id) ==
    IF dir[path].exists THEN dir
    ELSE [dir EXCEPT ![path] = [exists |-> TRUE, held |-> 0, total |-> n, of |-> id]]
\* `with open(file_path, "wb") as f:` creates the file, or empties the one
\* that is there (line 64)
OpenForWrite(dir, path, n, id) ==
    [dir EXCEPT ![path] = [exists |-> TRUE, held |-> 0, total |-> n, of |-> id]]
\* f.write(chunk) (line 67)
WriteBlock(dir, path) == [dir EXCEPT ![path].held = @ + 1]

\* Lines 41-64: the file name, the request, raise_for_status, the open. The
\* request fails (connection error, timeout), or the final status is not 2xx,
\* or the body of n blocks follows, with or without a content-length.
\* (mutant) the destination is opened for writing before the status is looked at
DirOpenedFirst(resp, dir, path, n, id) == OpenForWrite(dir, path, n, id)
\* httpx.stream raises, or raise_for_status() (line 60) raises, before
\* open(file_path, "wb") (line 64) is reached: the directory is as it was
DirAfterResponse(resp, dir, path, n, id) ==
    IF resp = "ok" THEN OpenForWrite(dir, path, n, id) ELSE dir
DownloadBegin ==
    /\ bpc = "download"
    /\ stages' = Append(stages, "Fetching")
    /\ \E resp \in {"error", "status", "ok"}, n \in 1..MaxBlocks, len \in BOOLEAN :
         /\ response' = resp
         /\ fs' = DirAfterResponse(resp, fs, FileName(paper), n, paper.id)
         /\ IF resp = "ok"
            THEN /\ blocks' = n
                 /\ written' = 0
                 /\ has_length' = len
                 /\ bpc' = "writing"
                 /\ UNCHANGED <<success_count, failed_count, outcomes, dl_res>>
            ELSE /\ OnFetchError
                 /\ UNCHANGED <<blocks, written, has_length>>
    /\ UNCHANGED <<pos, paper, attempted, index_res>>
    /\ UNCHANGED chunk_vars
    /\ UNCHANGED run_frame
    /\ UNCHANGED store_vars
    /\ UNCHANGED extract_vars
    /\ UNCHANGED chat_vars

\* The callers build Progress(...) and add no task to it (download.py lines
\* 68-75 and 151-155), so progress.tasks is empty and progress.tasks[0]
\* (line 72) raises IndexError.
ProgressHasTask == FALSE

\* One round of `for chunk in response.iter_bytes(...)` (lines 66-75): the
\* stream breaks before the block arrives, or the block is written and, when
\* a content-length came, the progress bar is updated.
DownloadWrite ==
    /\ bpc = "writing"
    /\ written < blocks
    /\ \E arrives \in BOOLEAN :
         IF ~arrives
         THEN /\ OnFetchError
              /\ UNCHANGED <<fs, written>>
         ELSE /\ fs' = WriteBlock(fs, FileName(paper))
              /\ written' = written + 1
              /\ IF has_length /\ ~ProgressHasTask
                 THEN OnFetchError
                 ELSE UNCHANGED <<dl_res, bpc, success_count, failed_count, outcomes>>
    /\ UNCHANGED <<pos, paper, attempted, stages, index_res, blocks, has_length,
                   response>>
    /\ UNCHANGED chunk_vars
    /\ UNCHANGED run_frame
    /\ UNCHANGED store_vars
    /\ UNCHANGED extract_vars
    /\ UNCHANGED chat_vars

\* The body is exhausted: download_pdf returns file_path (line 77); the caller
\* goes on to index_paper if --index (lines 162-163, 85-87), else the
\* document has succeeded.
DownloadReturn ==
    /\ bpc = "writing"
    /\ written = blocks
    /\ dl_res' = "returned"
    /\ IF index
       THEN /\ bpc' = "index"
            /\ UNCHANGED <<success_count, failed_count, outcomes>>
       ELSE DocSucceeded
    /\ UNCHANGED <<pos, paper, fs, attempted, stages, index_res>>
    /\ UNCHANGED fetch_vars
    /\ UNCHANGED chunk_vars
    /\ UNCHANGED run_frame
    /\ UNCHANGED store_vars
    /\ UNCHANGED extract_vars
    /\ UNCHANGED chat_vars

\* ------------------------------------------------------------- index_paper
\* How index_paper ends for the caller: a raise reaches the handler, a return
\* lets the caller count the document as succeeded
IndexEnds(r) ==
    /\ index_res' = (IF r.kind = "raise" THEN r.exc ELSE "returned")
    /\ IF r.kind = "raise" THEN DocFailed ELSE DocSucceeded

\* (mutant) index_paper removes the downloaded file on entry
IndexEntryRemovesFile ==
    /\ bpc = "index"
    /\ fs' = [fs EXCEPT ![FileName(paper)] = NoFile]
    /\ IF ~cfg.db_host
       THEN IndexEnds(AfterConsolePrint(Return("")))
       ELSE /\ bpc' = "extracting"
            /\ index_res' = "running"
            /\ UNCHANGED <<success_count, failed_count, outcomes>>
    /\ UNCHANGED <<pos, paper, attempted, stages, dl_res>>
    /\ UNCHANGED fetch_vars
    /\ UNCHANGED chunk_vars
    /\ UNCHANGED run_frame
    /\ UNCHANGED store_vars
    /\ UNCHANGED extract_vars
    /\ UNCHANGED chat_vars
\* Lines 90-93: with no database host, console.print(...) and return "";
\* otherwise go on to _extract_text
IndexEntry ==
    /\ bpc = "index"
    /\ IF ~cfg.db_host
       THEN IndexEnds(AfterConsolePrint(Return("")))
       ELSE /\ bpc' = "extracting"
            /\ index_res' = "running"
            /\ UNCHANGED <<success_count, failed_count, outcomes>>
    /\ UNCHANGED <<pos, paper, fs, attempted, stages, dl_res>>
    /\ UNCHANGED fetch_vars
    /\ UNCHANGED chunk_vars
    /\ UNCHANGED run_frame
    /\ UNCHANGED store_vars
    /\ UNCHANGED extract_vars
    /\ UNCHANGED chat_vars

\* The texts a PDF can yield in a command run
MaxPdfLen == 1
PdfTexts == SeqsUpTo(Chars, MaxPdfLen)

\* A page of a PDF: page.extract_text() raises (ok FALSE) or returns a text,
\* which may be empty
PdfPages == {[ok |-> FALSE, text |-> <<>>]} \cup {[ok |-> TRUE, text |-> t] : t \in PdfTexts}
\* The PDFs of at most n pages; one that PdfReader cannot open has no pages
PdfDocs(n) ==
    {[opens |-> FALSE, pages |-> <<>>]}
        \cup {[opens |-> TRUE, pages |-> ps] : ps \in SeqsUpTo(PdfPages, n)}

\* "\n\n".join(text_parts)
RECURSIVE JoinParts(_)
JoinParts(parts) ==
    IF parts = <<>> THEN <<>>
    ELSE IF Len(parts) = 1 THEN parts[1]
    ELSE parts[1] \o <<"\n", "\n">> \o JoinParts(Tail(parts))
\* _extract_text (lines 119-132): PdfReader and the loop over the pages stand
\* in one try block, whose handler turns any exception, that of a single
\* page.extract_text() included, into Exception; the pages whose text is
\* empty are left out (`if text:`)
ExtractPages(d) ==
    IF ~d.opens \/ \E i \in 1..Len(d.pages) : ~d.pages[i].ok
    THEN Raise("Exception")
    ELSE LET kept == SelectSeq(d.pages, LAMBDA pg : pg.text # <<>>)
         IN  Return(JoinParts([i \in 1..Len(kept) |-> kept[i].text]))

\* Lines 96-99: _extract_text raises or returns the joined page texts, and
\* _chunk_text is entered with its default arguments
ExtractText ==
    /\ bpc = "extracting"
    /\ \E d \in PdfDocs(1) :
         LET r == ExtractPages(d)
         IN  /\ pdf' = d
             /\ extract_res' = r
             /\ IF r.kind = "return"
                THEN /\ stages' = stages \o <<"Extracting", "Chunking">>
                     /\ ChunkEntry(r.value, DefaultChunkSize, DefaultOverlap)
                     /\ bpc' = "chunking"
                     /\ UNCHANGED <<success_count, failed_count, outcomes, index_res>>
                ELSE /\ stages' = Append(stages, "Extracting")
                     /\ IndexEnds(r)
                     /\ UNCHANGED chunk_vars
    /\ UNCHANGED <<pos, paper, fs, attempted, dl_res>>
    /\ UNCHANGED fetch_vars
    /\ UNCHANGED run_frame
    /\ UNCHANGED store_vars
    /\ UNCHANGED chat_vars

\* A direct call of _extract_text
ExtractCall ==
    /\ bpc = "extract_call"
    /\ extract_res = NoResult
    /\ extract_res' = ExtractPages(pdf)
    /\ UNCHANGED pdf
    /\ UNCHANGED <<chunk_vars, cfg, embed_res, backends, cmd_vars>>
    /\ UNCHANGED store_vars
    /\ UNCHANGED chat_vars

\* Lines 102-107, once _chunk_text has returned: _generate_embeddings, then
\* _store_in_db if the embeddings came back, then return paper_id
StagesAfterChunk(e) ==
    IF e.kind = "raise" THEN <<"Embedding">> ELSE <<"Embedding", "Storing">>
EmbedAndStore ==
    /\ bpc = "chunking"
    /\ cpc = "done"
    /\ LET e == GenerateEmbeddings(cfg, chunks)
           s == StoreInDb(paper, chunks, e.value)
       IN  /\ stages' = stages \o StagesAfterChunk(e)
           /\ IndexEnds(IF e.kind = "raise" THEN e ELSE s)
    /\ backends' = BackendsInvoked(cfg, chunks)
    /\ UNCHANGED <<pos, paper, fs, attempted, dl_res>>
    /\ UNCHANGED fetch_vars
    /\ UNCHANGED chunk_vars
    /\ UNCHANGED run_consts
    /\ UNCHANGED store_vars
    /\ UNCHANGED extract_vars
    /\ UNCHANGED chat_vars

\* --------------------------------------------------------- SurrealDBClient
\* db/surrealdb.py line 3, `from typing import Optional, list, Any`, raises
\* ImportError, and no other module imports this one; the actions below are
\* the bodies of the methods as written, with the database as the
\* environment: each query succeeds or raises. The read-only methods
\* search_papers, get_paper and get_stats are left out.
\* The paper ids used in calls of the client, and the cosine similarities (in
\* tenths) a stored embedding can have to the query vector of semantic_search
StoreIds == {"W1", "W2"}
Sims == {5, 9}

NoCall == [op |-> "none", arg |-> "-", limit |-> 0, configured |-> FALSE,
           res |-> "-", queries |-> 0, hits |-> <<>>,
           before |-> [paper_rows |-> {}, chunk_rows |-> <<>>]]
\* the record of a call made in the current state
Called(op, arg, res, q, hits) ==
    [op |-> op, arg |-> arg, limit |-> 0, configured |-> client, res |-> res,
     queries |-> q, hits |-> hits, before |-> [paper_rows |-> paper_rows, chunk_rows |-> chunk_rows]]

pipeline_vars == <<chunk_vars, cfg, embed_res, backends, cmd_vars, extract_vars, chat_vars>>

\* connect: False without a host; otherwise surrealdb.Server(...) is built and
\* True returned, or any exception is swallowed and False returned. A failed
\* connect leaves self.client as it was.
Connect ==
    /\ bpc = "store" /\ spc = "idle"
    /\ \E reachable \in BOOLEAN :
         LET ok == cfg.db_host /\ reachable
         IN  /\ client' = (IF ok THEN TRUE ELSE client)
             /\ last' = Called("connect", "-", IF ok THEN "True" ELSE "False", 0, <<>>)
    /\ UNCHANGED <<paper_rows, chunk_rows, spc>>
    /\ UNCHANGED pipeline_vars

\* create_tables: `return` (None) without a client; otherwise four queries,
\* then the implicit return of None, or the exception of a failed query
\* wrapped in Exception
CreateTables ==
    /\ bpc = "store" /\ spc = "idle"
    /\ \E failed \in 0..4 :
         last' = IF ~client THEN Called("create_tables", "-", "None", 0, <<>>)
                 ELSE IF failed = 0 THEN Called("create_tables", "-", "None", 4, <<>>)
                 ELSE Called("create_tables", "-", "Exception", failed, <<>>)
    /\ UNCHANGED <<client, paper_rows, chunk_rows, spc>>
    /\ UNCHANGED pipeline_vars

\* add_paper: "" without a client; otherwise CREATE papers SET id = ..., and
\* str(result) (never the empty string) or Exception
AddPaper ==
    /\ bpc = "store" /\ spc = "idle"
    /\ \E id \in StoreIds, ok \in BOOLEAN :
         IF ~client
         THEN /\ last' = Called("add_paper", id, "", 0, <<>>)
              /\ UNCHANGED paper_rows
         ELSE IF ok
         THEN /\ paper_rows' = paper_rows \cup {id}
              /\ last' = Called("add_paper", id, "str(result)", 1, <<>>)
         ELSE /\ last' = Called("add_paper", id, "Exception", 1, <<>>)
              /\ UNCHANGED paper_rows
    /\ UNCHANGED <<client, chunk_rows, spc>>
    /\ UNCHANGED pipeline_vars

\* add_chunk: "" without a client; otherwise CREATE chunks SET paper_id,
\* content, embedding (no other field), and str(result) or Exception
AddChunk ==
    /\ bpc = "store" /\ spc = "idle"
    /\ Len(chunk_rows) < MaxRows
    /\ \E id \in StoreIds, sim \in Sims, ok \in BOOLEAN :
         IF ~client
         THEN /\ last' = Called("add_chunk", id, "", 0, <<>>)
              /\ UNCHANGED chunk_rows
         ELSE IF ok
         THEN /\ chunk_rows' = Append(chunk_rows, [paper_id |-> id, sim |-> sim])
              /\ last' = Called("add_chunk", id, "str(result)", 1, <<>>)
         ELSE /\ last' = Called("add_chunk", id, "Exception", 1, <<>>)
              /\ UNCHANGED chunk_rows
    /\ UNCHANGED <<client, paper_rows, spc>>
    /\ UNCHANGED pipeline_vars

\* SELECT *, vector::similarity::cosine(embedding, q) AS score FROM chunks
\* ORDER BY score DESC: the rows (by their position of insertion) in an order
\* of descending score. The query names no second sort key and the rows hold
\* no field that records when they were inserted, so rows of equal score come
\* in whatever order the database yields them.
Rankings(rs) ==
    {p \in [1..Len(rs) -> 1..Len(rs)] :
        /\ \A i, j \in 1..Len(rs) : i # j => p[i] # p[j]
        /\ \A i, j \in 1..Len(rs) : i < j => rs[p[i]].sim >= rs[p[j]].sim}

\* semantic_search: [] without a client; otherwise the query above with
\* LIMIT {limit}, and `result or []` or Exception
SemanticSearch ==
    /\ bpc = "store" /\ spc = "idle"
    /\ \E limit \in 1..MaxRows, ok \in BOOLEAN, order \in Rankings(chunk_rows) :
         LET c == IF ~client THEN Called("semantic_search", "-", "list", 0, <<>>)
                  ELSE IF ok
                  THEN Called("semantic_search", "-", "list", 1, PySlice(order, 0, limit))
                  ELSE Called("semantic_search", "-", "Exception", 1, <<>>)
         IN  last' = [c EXCEPT !.limit = limit]
    /\ UNCHANGED <<client, paper_rows, chunk_rows, spc>>
    /\ UNCHANGED pipeline_vars

\* delete_paper up to its first query: False without a client; otherwise
\* DELETE FROM papers WHERE id = ..., which removes the row or raises
DeleteBegin ==
    /\ bpc = "store" /\ spc = "idle"
    /\ \E id \in StoreIds, ok \in BOOLEAN :
         IF ~client
         THEN /\ last' = Called("delete_paper", id, "False", 0, <<>>)
              /\ UNCHANGED <<paper_rows, spc>>
         ELSE IF ok
         THEN /\ paper_rows' = paper_rows \ {id}
              /\ last' = Called("delete_paper", id, "running", 1, <<>>)
              /\ spc' = "deleting"
         ELSE /\ last' = Called("delete_paper", id, "Exception", 1, <<>>)
              /\ UNCHANGED <<paper_rows, spc>>
    /\ UNCHANGED <<client, chunk_rows>>
    /\ UNCHANGED pipeline_vars

\* delete_paper's second query, DELETE FROM chunks WHERE paper_id = ..., sent
\* on its own after the first: it removes the rows and True is returned, or it
\* raises and the handler re-raises
DeleteChunks ==
    /\ bpc = "store" /\ spc = "deleting"
    /\ \E ok \in BOOLEAN :
         IF ok
         THEN /\ chunk_rows' = SelectSeq(chunk_rows, LAMBDA r : r.paper_id # last.arg)
              /\ last' = [last EXCEPT !.res = "True", !.queries = 2]
         ELSE /\ last' = [last EXCEPT !.res = "Exception", !.queries = 2]
              /\ UNCHANGED chunk_rows
    /\ spc' = "idle"
    /\ UNCHANGED <<client, paper_rows>>
    /\ UNCHANGED pipeline_vars

\* ---------------------------------------------------------- specifications
IdLists == {s \in SeqsUpTo(Docs, MaxBatch) : Len(s) >= 1}
\* the identifier files of at most MaxLines lines and at most MaxBatch
\* identifiers
Files == {f \in SeqsUpTo(FileLines, MaxLines) : Len(ReadIds(f)) <= MaxBatch}
\* the files that hold one identifier on each line and nothing else
PlainFiles == {[i \in 1..Len(s) |-> <<s[i], " ">>] : s \in IdLists}

\* A run of download_paper (one identifier) or of download_batch (the
\* identifiers read from the file), in an empty download directory
Init ==
    /\ cfg \in Configs
    /\ embed_res = NoResult /\ backends = {}
    /\ cmd \in {"default", "batch"}
    /\ index \in BOOLEAN
    /\ IF cmd = "batch"
       THEN /\ file_lines \in PlainFiles
            /\ paper_ids = <<>>
       ELSE /\ file_lines = <<>>
            /\ paper_ids \in {s \in IdLists : Len(s) = 1}
    /\ pos = (IF cmd = "batch" THEN 0 ELSE 1)
    /\ bpc = (IF cmd = "batch" THEN "read" ELSE "get_paper")
    /\ attempted = (IF cmd = "batch" THEN <<>> ELSE paper_ids)
    /\ paper = NoPaper
    /\ success_count = 0 /\ failed_count = 0
    /\ blocks = 0 /\ written = 0 /\ has_length = FALSE /\ response = "none"
    /\ fs = [p \in Paths |-> NoFile]
    /\ outcomes = <<>>
    /\ stages = <<>>
    /\ dl_res = "none" /\ index_res = "none"
    /\ text = <<>> /\ chunk_size = DefaultChunkSize /\ overlap = DefaultOverlap
    /\ start = 0 /\ end = 0 /\ chunks = <<>> /\ cpc = "idle"
    /\ client = FALSE /\ paper_rows = {} /\ chunk_rows = <<>>
    /\ spc = "idle" /\ last = NoCall
    /\ pdf = NoPdf /\ extract_res = NoResult
    /\ current_paper_id = NoPaperId /\ current_session_id = NoSession
    /\ started = 0 /\ ended = {}

Next ==
    \/ BatchRead \/ BatchTake \/ BatchSummary \/ GetPaper \/ GetPdfUrl
    \/ DownloadBegin \/ DownloadWrite \/ DownloadReturn
    \/ IndexEntry \/ ExtractText \/ ChunkStep \/ ChunkReturnEmpty \/ EmbedAndStore
    \/ Interrupt

Spec == Init /\ [][Next]_vars

\* A run of download_batch --index with a database host configured, on an
\* identifier file with blank lines and padded identifiers
FileInit ==
    /\ cfg = [db_host |-> TRUE, api_key |-> FALSE, provider |-> "ollama",
              st_installed |-> TRUE]
    /\ embed_res = NoResult /\ backends = {}
    /\ cmd = "batch"
    /\ index = TRUE
    /\ file_lines \in Files
    /\ paper_ids = <<>>
    /\ pos = 0
    /\ bpc = "read"
    /\ attempted = <<>>
    /\ paper = NoPaper
    /\ success_count = 0 /\ failed_count = 0
    /\ blocks = 0 /\ written = 0 /\ has_length = FALSE /\ response = "none"
    /\ fs = [p \in Paths |-> NoFile]
    /\ outcomes = <<>>
    /\ stages = <<>>
    /\ dl_res = "none" /\ index_res = "none"
    /\ text = <<>> /\ chunk_size = DefaultChunkSize /\ overlap = DefaultOverlap
    /\ start = 0 /\ end = 0 /\ chunks = <<>> /\ cpc = "idle"
    /\ client = FALSE /\ paper_rows = {} /\ chunk_rows = <<>>
    /\ spc = "idle" /\ last = NoCall
    /\ pdf = NoPdf /\ extract_res = NoResult
    /\ current_paper_id = NoPaperId /\ current_session_id = NoSession
    /\ started = 0 /\ ended = {}

FileSpec == FileInit /\ [][Next]_vars

\* The text of 2500 characters of the end-to-end scenario, chunked with the
\* default arguments; its characters are numbered, so that a chunk shows the
\* offset it was cut at
ScenarioText == [i \in 1..2500 |-> ToString(i)]

\* A direct call _chunk_text(text, chunk_size, overlap), followed by a direct
\* call of _generate_embeddings on what it returned
CallInit ==
    /\ cfg \in Configs
    /\ embed_res = NoResult /\ backends = {}
    /\ cmd = "none" /\ index = FALSE /\ file_lines = <<>> /\ paper_ids = <<>>
    /\ pos = 0 /\ bpc = "call"
    /\ attempted = <<>> /\ paper = NoPaper
    /\ success_count = 0 /\ failed_count = 0
    /\ blocks = 0 /\ written = 0 /\ has_length = FALSE /\ response = "none"
    /\ fs = [p \in Paths |-> NoFile]
    /\ outcomes = <<>> /\ stages = <<>>
    /\ dl_res = "none" /\ index_res = "none"
    /\ \/ /\ text \in Texts
          /\ chunk_size \in 1..MaxSize
          /\ overlap \in 0..MaxSize
       \/ /\ text = ScenarioText
          /\ chunk_size = DefaultChunkSize
          /\ overlap = DefaultOverlap
    /\ start = 0 /\ end = 0 /\ chunks = <<>> /\ cpc = "loop"
    /\ client = FALSE /\ paper_rows = {} /\ chunk_rows = <<>>
    /\ spc = "idle" /\ last = NoCall
    /\ pdf = NoPdf /\ extract_res = NoResult
    /\ current_paper_id = NoPaperId /\ current_session_id = NoSession
    /\ started = 0 /\ ended = {}

CallNext == ChunkStep \/ ChunkReturnEmpty \/ EmbedCall

CallSpec == CallInit /\ [][CallNext]_vars

\* A SurrealDBClient just constructed (self.client = None) for a
\* configuration with or without a database host; no command runs
StoreInit ==
    /\ cfg \in {c \in Configs : ~c.api_key /\ c.provider = "ollama" /\ ~c.st_installed}
    /\ embed_res = NoResult /\ backends = {}
    /\ cmd = "none" /\ index = FALSE /\ file_lines = <<>> /\ paper_ids = <<>>
    /\ pos = 0 /\ bpc = "store"
    /\ attempted = <<>> /\ paper = NoPaper
    /\ success_count = 0 /\ failed_count = 0
    /\ blocks = 0 /\ written = 0 /\ has_length = FALSE /\ response = "none"
    /\ fs = [p \in Paths |-> NoFile]
    /\ outcomes = <<>> /\ stages = <<>>
    /\ dl_res = "none" /\ index_res = "none"
    /\ text = <<>> /\ chunk_size = DefaultChunkSize /\ overlap = DefaultOverlap
    /\ start = 0 /\ end = 0 /\ chunks = <<>> /\ cpc = "idle"
    /\ client = FALSE /\ paper_rows = {} /\ chunk_rows = <<>>
    /\ spc = "idle" /\ last = NoCall
    /\ pdf = NoPdf /\ extract_res = NoResult
    /\ current_paper_id = NoPaperId /\ current_session_id = NoSession
    /\ started = 0 /\ ended = {}

StoreNext ==
    \/ Connect \/ CreateTables \/ AddPaper \/ AddChunk \/ SemanticSearch
    \/ DeleteBegin \/ DeleteChunks

StoreSpec == StoreInit /\ [][StoreNext]_vars

\* A direct call _extract_text(file_path) on a PDF of at most MaxPages pages
ExtractInit ==
    /\ cfg \in {c \in Configs : ~c.api_key /\ c.provider = "ollama" /\ ~c.st_installed}
    /\ embed_res = NoResult /\ backends = {}
    /\ cmd = "none" /\ index = FALSE /\ file_lines = <<>> /\ paper_ids = <<>>
    /\ pos = 0 /\ bpc = "extract_call"
    /\ attempted = <<>> /\ paper = NoPaper
    /\ success_count = 0 /\ failed_count = 0
    /\ blocks = 0 /\ written = 0 /\ has_length = FALSE /\ response = "none"
    /\ fs = [p \in Paths |-> NoFile]
    /\ outcomes = <<>> /\ stages = <<>>
    /\ dl_res = "none" /\ index_res = "none"
    /\ text = <<>> /\ chunk_size = DefaultChunkSize /\ overlap = DefaultOverlap
    /\ start = 0 /\ end = 0 /\ chunks = <<>> /\ cpc = "idle"
    /\ client = FALSE /\ paper_rows = {} /\ chunk_rows = <<>>
    /\ spc = "idle" /\ last = NoCall
    /\ pdf \in PdfDocs(MaxPages) /\ extract_res = NoResult
    /\ current_paper_id = NoPaperId /\ current_session_id = NoSession
    /\ started = 0 /\ ended = {}

ExtractNext == ExtractCall

ExtractSpec == ExtractInit /\ [][ExtractNext]_vars

\* ------------------------------------------------- ChatEngine (chat_engine.py)
\* the paper ids load_paper is called with
ChatPaperIds == {"W1", "W2", "W3"}

\* DataStorage.start_reading_session(paper_id), after n earlier calls: a new
\* reading session is recorded and its id, not used before, is returned
StartReadingSession(n) == n + 1
\* DataStorage.end_reading_session(session_id): the session is marked ended
EndReadingSession(e, session_id) == e \cup {session_id}
\* the reading sessions started and not ended
OpenSessions == (1..started) \ ended

\* load_paper(paper_id), lines 148-170: the paper id is stored and a new reading
\* session is started; a session already current is not ended
LoadPaper ==
    /\ bpc = "chat"
    /\ started < MaxSessions
    /\ \E paper_id \in ChatPaperIds : current_paper_id' = paper_id
    /\ current_session_id' = StartReadingSession(started)
    /\ started' = started + 1
    /\ UNCHANGED ended
    /\ UNCHANGED <<chunk_vars, cfg, embed_res, backends, cmd_vars, extract_vars>>
    /\ UNCHANGED store_vars

\* clear_context(), lines 331-341
ClearContext ==
    /\ bpc = "chat"
    /\ ended' = IF current_session_id # NoSession
                THEN EndReadingSession(ended, current_session_id)
                ELSE ended
    /\ current_session_id' = NoSession
    /\ current_paper_id' = NoPaperId
    /\ UNCHANGED started
    /\ UNCHANGED <<chunk_vars, cfg, embed_res, backends, cmd_vars, extract_vars>>
    /\ UNCHANGED store_vars

\* One ChatEngine after __init__, then load_paper and clear_context in any order
ChatInit ==
    /\ cfg \in {c \in Configs : ~c.api_key /\ c.provider = "ollama" /\ ~c.st_installed}
    /\ embed_res = NoResult /\ backends = {}
    /\ cmd = "none" /\ index = FALSE /\ file_lines = <<>> /\ paper_ids = <<>>
    /\ pos = 0 /\ bpc = "chat"
    /\ attempted = <<>> /\ paper = NoPaper
    /\ success_count = 0 /\ failed_count = 0
    /\ blocks = 0 /\ written = 0 /\ has_length = FALSE /\ response = "none"
    /\ fs = [p \in Paths |-> NoFile]
    /\ outcomes = <<>> /\ stages = <<>>
    /\ dl_res = "none" /\ index_res = "none"
    /\ text = <<>> /\ chunk_size = DefaultChunkSize /\ overlap = DefaultOverlap
    /\ start = 0 /\ end = 0 /\ chunks = <<>> /\ cpc = "idle"
    /\ client = FALSE /\ paper_rows = {} /\ chunk_rows = <<>>
    /\ spc = "idle" /\ last = NoCall
    /\ pdf = NoPdf /\ extract_res = NoResult
    /\ current_paper_id = NoPaperId /\ current_session_id = NoSession
    /\ started = 0 /\ ended = {}

ChatNext == LoadPaper \/ ClearContext

ChatSpec == ChatInit /\ [][ChatNext]_vars

\* ================================================================== claims
Range(s) == {s[i] : i \in 1..Len(s)}
IsPrefix(s, t) == Len(s) <= Len(t) /\ SubSeq(t, 1, Len(s)) = s

\* size > 0 and 0 <= overlap < size
ValidArgs == chunk_size > 0 /\ 0 <= overlap /\ overlap < chunk_size
\* the iteration just run took the chunk that ends at len(text)
TookLastChunk == chunks # <<>> /\ end = Len(text)

\* C1 (CallSpec): for valid arguments the chunking loop terminates, its last
\* iteration being the one in which end == len(text): once that iteration
\* has run, _chunk_text is at its return.
C1_LoopEndsAtTextEnd == (ValidArgs /\ TookLastChunk) => cpc = "done"

\* Dropping the first `ov` characters of every chunk but the first, and
\* concatenating
Drop(s, k) == IF k >= Len(s) THEN <<>> ELSE SubSeq(s, k + 1, Len(s))
RECURSIVE ConcatDropped(_, _)
ConcatDropped(cs, ov) ==
    IF cs = <<>> THEN <<>> ELSE Drop(Head(cs), ov) \o ConcatDropped(Tail(cs), ov)
Reassemble(cs, ov) ==
    IF cs = <<>> THEN <<>> ELSE Head(cs) \o ConcatDropped(Tail(cs), ov)

\* C2 (CallSpec): chunk reconstruction. For every non-empty text and valid
\* arguments, once the chunk ending at len(text) has been taken _chunk_text
\* returns, and the chunks it returns, reassembled by dropping the first
\* `overlap` characters of every chunk but the first, are the text.
C2_Reconstruction ==
    (ValidArgs /\ text # <<>> /\ TookLastChunk) =>
        (cpc = "done" /\ Reassemble(chunks, overlap) = text)

\* ceil(a / b) for a >= 0, b > 0
CeilDiv(a, b) == (a + b - 1) \div b
ExpectedCount(L, size, ov) ==
    IF L > 0 THEN CeilDiv(Max(L - ov, 0), size - ov) ELSE 0

\* C9 (CallSpec): chunk count. For valid arguments the chunk list of a text
\* of length L holds ceil(max(L - overlap, 0) / (size - overlap)) chunks when
\* returned, and since chunks are only ever appended it never holds more.
\* Stated for the texts longer than the overlap; on a shorter non-empty text
\* the formula gives 0, against the single whole-text chunk of C10.
C9_ChunkCount ==
    (ValidArgs /\ (text = <<>> \/ Len(text) > overlap)) =>
        /\ Len(chunks) <= ExpectedCount(Len(text), chunk_size, overlap)
        /\ cpc = "done" => Len(chunks) = ExpectedCount(Len(text), chunk_size, overlap)

\* C10 (CallSpec): chunker edge cases. The empty text gives the empty list;
\* a text with 0 < len(text) <= size gives the one chunk equal to the text,
\* so its chunk list is empty or that one chunk, and that one chunk at return.
C10_EdgeCases ==
    ValidArgs =>
        /\ (text = <<>> /\ cpc = "done") => chunks = <<>>
        /\ (text # <<>> /\ Len(text) <= chunk_size) =>
              /\ chunks = <<>> \/ chunks = <<text>>
              /\ cpc = "done" => chunks = <<text>>

IndexEnded == index_res \notin {"none", "running"}
\* a file holds all the blocks of the payload it was opened for
Complete(f) == f.exists /\ f.held = f.total

\* C3 (Spec): degrade-not-crash. index_paper called for a downloaded document
\* with no database host configured returns (the Skipped outcome), raises
\* nothing, and leaves the downloaded file intact.
C3_NoDatabaseSkips ==
    (~cfg.db_host /\ IndexEnded) =>
        /\ index_res = "returned"
        /\ Complete(fs[FileName(paper)])

\* C5 (Spec): atomic fetch. In every state the destination path holds no
\* partial payload: a file of the download directory holds all the blocks of
\* the payload it was opened for.
C5_AtomicFetch == \A p \in Paths : fs[p].exists => Complete(fs[p])

\* no usable embedding backend: the local path is chosen and
\* sentence_transformers cannot be imported
NoBackend(c) == ~UsesRemote(c) /\ ~c.st_installed

\* C7 (Spec): with no usable embedding backend, a document that reaches
\* Embedding ends Skipped: index_paper raises nothing (the document is not
\* Failed) and Storing is not started.
C7_UnavailableBackendSkips ==
    (NoBackend(cfg) /\ "Embedding" \in Range(stages)) =>
        /\ index_res = "returned"
        /\ outcomes[Len(outcomes)] # "failed"
        /\ "Storing" \notin Range(stages)

\* C4 (Spec): batch isolation. In download_batch no failure of a document
\* ends the command before the list is exhausted; the identifiers are taken
\* once each in list order; every document before the one in hand has exactly
\* one outcome; each document starts from fresh per-document state; and the
\* summary comes only when all identifiers have been taken.
C4_BatchIsolation ==
    cmd = "batch" =>
        /\ bpc \notin {"exit1", "finished"}
        /\ Len(attempted) = pos
        /\ attempted = SubSeq(paper_ids, 1, pos)
        /\ Len(outcomes) \in (IF bpc \in {"read", "head", "summary"} THEN {pos}
                              ELSE IF bpc = "interrupted" THEN {pos - 1, pos}
                              ELSE {pos - 1})
        /\ success_count + failed_count = Len(outcomes)
        /\ bpc = "get_paper" =>
              (stages = <<>> /\ dl_res = "none" /\ index_res = "none" /\ cpc = "idle")
        /\ bpc = "summary" => attempted = paper_ids
\* a batch of two: the first download broke off and left its partial file,
\* the second document was then downloaded whole and counted as succeeded
C4_Witness ==
    /\ cmd = "batch" /\ bpc = "summary"
    /\ outcomes = <<"failed", "ok">>
    /\ \E p \in Paths : fs[p].exists /\ ~Complete(fs[p])
    /\ \E p \in Paths : Complete(fs[p])

\* C6 (Spec): for one document the stages start in the order fetch, extract,
\* chunk, embed, store, each after its predecessor has completed: extraction
\* only after download_pdf returned, embedding only after _chunk_text
\* returned; and index_paper is invoked only after download_pdf returned.
StageOrder == <<"Fetching", "Extracting", "Chunking", "Embedding", "Storing">>
C6_StagesInOrder ==
    /\ IsPrefix(stages, StageOrder)
    /\ (bpc \in {"index", "extracting", "chunking"} \/ index_res # "none")
          => dl_res = "returned"
    /\ "Extracting" \in Range(stages) => dl_res = "returned"
    /\ "Embedding" \in Range(stages) => cpc = "done"
\* a document whose text was extracted and chunked and whose embedding began
C6_Witness ==
    /\ stages = <<"Fetching", "Extracting", "Chunking", "Embedding">>
    /\ dl_res = "returned"

\* C11 (CallSpec): a call with overlap >= size is rejected before any chunk is
\* produced: the loop is not run and no chunk list, empty or not, is returned.
C11_InvalidOverlapRejected ==
    (chunk_size > 0 /\ overlap >= chunk_size) => (chunks = <<>> /\ cpc # "done")

\* Chunk i (from 0) as the claim places it: text[i*(size-overlap) :
\* min(i*(size-overlap) + size, len(text))]
ClaimedChunk(i) ==
    LET a == i * (chunk_size - overlap)
    IN  PySlice(text, a, Min(a + chunk_size, Len(text)))
\* chunk i is cut before the text is used up: it is the first one, or the
\* chunk before it ended short of len(text)
BeforeTextEnd(i) ==
    i = 0 \/ (i - 1) * (chunk_size - overlap) + chunk_size < Len(text)
Lengths(cs) == [k \in 1..Len(cs) |-> Len(cs[k])]
Heads(cs) == [k \in 1..Len(cs) |-> cs[k][1]]

IndexPcs == {"index", "extracting", "chunking"}

\* C17 (Spec): no step of index_paper (entry, _extract_text, _chunk_text,
\* embedding and storing) changes the download directory: the file written by
\* download_pdf stays as it was, whatever the outcome of the indexing.
C17_IndexKeepsFile == [][(bpc \in IndexPcs) => (fs' = fs)]_vars
C17_Witness ==
    /\ index_res = "Exception"
    /\ Complete(fs[FileName(paper)])
    /\ fs[FileName(paper)].of = paper.id

\* C18 (Spec): when the final status of the response is not 2xx, download_pdf
\* raises and returns no path (the document is counted as failed and
\* index_paper is not called), and the download directory is as it was before
\* the call: no file is created or modified at the destination path.
C18_BadStatusFails ==
    [][(bpc = "download" /\ response' = "status") =>
          (/\ dl_res' = "raised"
           /\ fs' = fs
           /\ bpc' = HandlerNext(cmd)
           /\ outcomes' = Append(outcomes, "failed"))]_vars
\* a non-2xx answer for a work whose file name is taken by the complete file of
\* an earlier work
C18_Witness ==
    /\ response = "status"
    /\ dl_res = "raised"
    /\ Complete(fs[FileName(paper)])
    /\ fs[FileName(paper)].of # paper.id

\* The sanitized title as the claim describes it: filtered, truncated, blanks
\* replaced
ClaimedTitle(title) == ReplaceBlanks(PySlice(Filter(title), 0, TitleLimit))
ClaimedFileName(p) ==
    AuthorLastname(p.authorships) \o <<"_", p.year, "_">> \o ClaimedTitle(p.title)
        \o <<".pdf">>
\* The sanitized title with the blanks at both ends removed after the
\* truncation and before the replacement
StrippedTitle(title) ==
    LET cut == PySlice(Filter(title), 0, TitleLimit)
    IN  ReplaceBlanks(Strip(cut))
Repeat(c, n) == [i \in 1..n |-> c]

\* C19 as claimed (Spec): every file of the download directory is named
\* {surname}_{year}_{title filtered, truncated to 50, blanks replaced}.pdf
\* after the work it was opened for.
C19_FileNameAsClaimed ==
    \A p \in Paths : fs[p].exists => p = ClaimedFileName(Catalog(fs[p].of))

\* C19 amended (Spec): every file of the download directory is named, after
\* the work it was opened for, {surname}_{year}_{title}.pdf, where surname is
\* the last word of the first author's display name and title is the title
\* filtered, truncated to 50 characters, stripped of the blanks at its ends,
\* and with the remaining blanks replaced by underscores.
C19_FileName ==
    /\ \A p \in Paths : fs[p].exists =>
          LET w == Catalog(fs[p].of)
          IN  p = LastWord(w.authorships[1]) \o <<"_", w.year, "_">>
                    \o StrippedTitle(w.title) \o <<".pdf">>
    /\ (paper # NoPaper /\ fs[FileName(paper)].exists) =>
          /\ paper.id = "W1" => FileName(paper) = <<"l", "_", "2020", "_", "a", "_", "b", ".pdf">>
          /\ paper.id = "W2" => FileName(paper) = <<"l", "_", "2020", "_", "a", "_", "b", ".pdf">>
          /\ paper.id = "W3" =>
                FileName(paper) = <<"m", "_", "2021", "_">> \o Repeat("b", TitleLimit - 1)
                                     \o <<".pdf">>
C19_Witness ==
    /\ paper.id = "W3"
    /\ Complete(fs[FileName(paper)])
    /\ fs[FileName(paper)].of = "W3"

\* lines 172-174: the totals the summary of download_batch prints
SummaryTotals == [succeeded |-> success_count, failed |-> failed_count]
\* the indexing of the document in hand was skipped: index_paper was entered
\* with no database host, or Embedding was reached with no usable backend
IndexingSkipped ==
    \/ ~cfg.db_host /\ index_res # "none"
    \/ NoBackend(cfg) /\ "Embedding" \in Range(stages)

\* C20 (Spec): the summary of a batch has a total of skipped documents beside
\* those of succeeded and failed ones, and a document whose indexing was
\* skipped is counted as skipped, neither as succeeded nor as failed.
C20_SkippedCounted ==
    (cmd = "batch" /\ bpc \in {"head", "summary"} /\ pos >= 1 /\ IndexingSkipped) =>
        /\ "skipped" \in DOMAIN SummaryTotals
        /\ outcomes[pos] = "skipped"

\* the rows of the chunks table that belong to a paper
RowsOf(rs, id) == SelectSeq(rs, LAMBDA r : r.paper_id = id)

\* C13 (StoreSpec): after a call of delete_paper has ended, by a return or a
\* raise, either the paper row and every chunk row of that paper are gone, or
\* both tables are as they were before the call; in particular no chunk rows
\* are left of a paper whose row the call removed.
C13_DeleteAtomic ==
    (last.op = "delete_paper" /\ spc = "idle") =>
        \/ /\ last.arg \notin paper_rows
           /\ RowsOf(chunk_rows, last.arg) = <<>>
        \/ /\ paper_rows = last.before.paper_rows
           /\ chunk_rows = last.before.chunk_rows

\* The positions of the rows in the order the claim prescribes: descending
\* score, rows of equal score in the order of their insertion
ByScoreThenInsertion(rs) ==
    CHOOSE p \in Rankings(rs) :
        \A i, j \in 1..Len(rs) : (i < j /\ rs[p[i]].sim = rs[p[j]].sim) => p[i] < p[j]

\* C14 (StoreSpec): a semantic_search with limit k that returns on a connected
\* client returns the k rows of highest similarity in descending order of
\* score, rows of equal score earliest insertion first; for similarities 0.9,
\* 0.5, 0.9 inserted in that order and k = 2, the first and the third row.
C14_TopKTiesByInsertion ==
    (last.op = "semantic_search" /\ last.configured /\ last.res = "list") =>
        /\ last.hits = PySlice(ByScoreThenInsertion(chunk_rows), 0, last.limit)
        /\ ([i \in 1..Len(chunk_rows) |-> chunk_rows[i].sim] = <<9, 5, 9>> /\ last.limit = 2)
              => last.hits = <<1, 3>>

\* the mutation operations of the client and what each returns when its query
\* or queries succeed
Mutations == {"add_paper", "add_chunk", "delete_paper", "create_tables"}
SuccessResult(op) ==
    CASE op = "create_tables" -> "None"
      [] op = "delete_paper"  -> "True"
      [] OTHER                -> "str(result)"

\* C15 (StoreSpec): a mutation operation called while self.client is None
\* issues no query and returns a result that differs from the result the same
\* operation returns when it succeeds.
C15_NotConfiguredIsExplicit ==
    (last.op \in Mutations /\ ~last.configured) =>
        /\ last.queries = 0
        /\ last.res # SuccessResult(last.op)

RECURSIVE NonBlankStripped(_)
NonBlankStripped(lines) ==
    IF lines = <<>> THEN <<>>
    ELSE LET l == Head(lines)
             inner == {i \in 1..Len(l) : l[i] # " "}
         IN  IF inner = {} THEN NonBlankStripped(Tail(lines))
             ELSE <<l[CHOOSE i \in inner : \A j \in inner : i <= j]>>
                      \o NonBlankStripped(Tail(lines))

\* C21 (FileSpec): the identifiers download_batch takes are, in order, the
\* non-blank lines of the file without their surrounding whitespace; at the
\* summary every such line has been taken and each has one tally entry, so
\* blank and whitespace-only lines give no document and no tally entry.
C21_IdsAreNonBlankLines ==
    cmd = "batch" =>
        /\ IsPrefix(attempted, NonBlankStripped(file_lines))
        /\ bpc \in (Running \ {"read"}) \cup {"summary", "exit1"} =>
              paper_ids = NonBlankStripped(file_lines)
        /\ bpc = "summary" =>
              /\ attempted = NonBlankStripped(file_lines)
              /\ Len(outcomes) = Len(NonBlankStripped(file_lines))
              /\ success_count + failed_count = Len(NonBlankStripped(file_lines))
\* a file with a blank line between two identifiers, the second one indented
C21_Witness ==
    /\ cmd = "batch" /\ bpc = "summary"
    /\ Len(file_lines) = 3
    /\ Strip(file_lines[2]) = <<>>
    /\ file_lines[3][1] = " "
    /\ Len(attempted) = 2

\* the start offset the next iteration of the chunking loop would leave behind
StartAfterIteration == ChunkNextStart(Min(start + chunk_size, Len(text)), overlap)

\* C22 (Spec): no stage of the pipeline can run forever. The chunking loop is
\* deterministic and its condition reads start and len(text) only, so an
\* iteration that is due and hands back the start offset it was given repeats
\* without end: in no reachable state of the Chunking stage may that happen,
\* or the document never reaches Done, Skipped or Failed.
C22_NoStageRunsForever ==
    (bpc = "chunking" /\ cpc = "loop" /\ start < Len(text)) => StartAfterIteration # start

\* C26 (CallSpec): with 0 <= overlap < size, every iteration of the chunking
\* loop leaves a start offset strictly greater than the one it began with.
C26_ForwardProgress ==
    [][(ValidArgs /\ cpc = "loop" /\ chunks' # chunks) => (start' > start)]_vars

\* download_pdf has opened the destination and has not yet written the whole
\* body to it
MidWrite == response = "ok" /\ dl_res = "none" /\ written < blocks

\* C23 (Spec): an interrupt never ends the command in the middle of writing
\* the destination file: the command interrupted, the file in hand is not one
\* that was opened and left short of its body.
C23_InterruptAfterStage == bpc = "interrupted" => ~MidWrite

\* the texts of the pages whose extraction returns a non-empty text, in order
ExtractablePages(d) ==
    LET kept == SelectSeq(d.pages, LAMBDA pg : pg.ok /\ pg.text # <<>>)
    IN  [i \in 1..Len(kept) |-> kept[i].text]

\* C24 (ExtractSpec): when the file opens, _extract_text returns the texts of
\* the pages that can be extracted, joined by blank lines: a page whose
\* extraction fails is skipped and does not make the call fail.
C24_FailedPageSkipped ==
    (extract_res # NoResult /\ pdf.opens) =>
        extract_res = Return(JoinParts(ExtractablePages(pdf)))

\* C25 (Spec): the paper in hand is as the metadata source sent it, but for
\* its local file path, and once download_pdf has returned for it the local
\* file path is the path of the downloaded file.
C25_OnlyLocalPathSet ==
    paper # NoPaper =>
        /\ [paper EXCEPT !.local_path = <<>>] = Catalog(paper.id)
        /\ dl_res = "returned" => paper.local_path = FileName(paper)

\* two different works whose metadata give the same file name
Collide(a, b) == a # b /\ FileName(Catalog(a)) = FileName(Catalog(b))

\* C27 (Spec): download_pdf writes to the path the metadata give, whatever is
\* there: from the moment it has opened the destination, the file at that path
\* is the one of the work in hand, holding what has been written of its body
\* (all of it once download_pdf has returned), also when an earlier work of
\* the batch was downloaded to the same path; that path holds one file.
C27_LaterOverwrites ==
    (paper # NoPaper /\ response = "ok") =>
        LET f == fs[FileName(paper)]
        IN  /\ f.exists
            /\ f.of = paper.id
            /\ f.total = blocks /\ f.held = written
            /\ dl_res = "returned" => Complete(f)
            /\ \A q \in Paths : (fs[q].exists /\ fs[q].of = paper.id) => q = FileName(paper)
\* both works of a colliding pair were downloaded, one after the other
C27_Witness ==
    /\ cmd = "batch" /\ pos = 2
    /\ Collide(paper_ids[1], paper_ids[2])
    /\ outcomes[1] = "ok"
    /\ dl_res = "returned"
    /\ fs[FileName(paper)].of = paper_ids[2]
    /\ Cardinality({q \in Paths : fs[q].exists}) = 1

\* how many documents ended with the outcome o
Count(o) == Cardinality({i \in 1..Len(outcomes) : outcomes[i] = o})

\* C28 (Spec): in download_batch, between two documents and at the summary
\* success_count + failed_count is the number of identifiers taken, inside the
\* loop body it is that number less the one in hand; success_count counts the
\* documents that succeeded and failed_count those that failed, each document
\* once; the summary comes when all identifiers have been taken.
C28_BatchTally ==
    cmd = "batch" =>
        /\ bpc \in {"read", "head", "summary"} => success_count + failed_count = pos
        /\ bpc \in Running \ {"read", "head"} => success_count + failed_count = pos - 1
        /\ success_count = Count("ok")
        /\ failed_count = Count("failed")
        /\ bpc = "summary" =>
              /\ pos = Len(paper_ids)
              /\ success_count + failed_count = Len(paper_ids)
C28_Witness ==
    /\ cmd = "batch" /\ bpc = "summary"
    /\ Len(paper_ids) = 2
    /\ success_count = 1 /\ failed_count = 1

\* C29 (CallSpec): a call of _generate_embeddings invokes exactly one
\* backend, the remote one if and only if an API key is configured and the
\* provider is not "ollama", whatever the chunks.
C29_BackendChoice ==
    embed_res # NoResult =>
        /\ Cardinality(backends) = 1
        /\ "remote" \in backends <=> (cfg.api_key /\ cfg.provider # "ollama")
        /\ "local" \in backends <=> (~cfg.api_key \/ cfg.provider = "ollama")
\* a key is configured and the provider is ollama: the local backend, on a
\* list of two chunks
C29_Witness ==
    /\ embed_res # NoResult
    /\ cfg.api_key /\ cfg.provider = "ollama"
    /\ backends = {"local"}
    /\ Len(chunks) = 2

\* ---- C30 ----
\* C30: after any sequence of load_paper and clear_context calls on one
\* ChatEngine, at most one reading session has been started and not ended;
\* current_session_id is set only while current_paper_id is set; and
\* clear_context ends the current session and resets both to None.
C30_SessionSetOnlyWithPaper ==
    current_session_id # NoSession => current_paper_id # NoPaperId
C30_ClearEndsCurrent ==
    (current_paper_id = NoPaperId /\ current_session_id = NoSession)
        => (started \in ended \/ started = 0)
====
